---- MODULE Spec2Model ----
(***************************************************************************)
(* A model of the spider task workflow engine: graph validation            *)
(* (src/src/functions.ts), the dependency-driven scheduler                 *)
(* (src/src/main/api.ts, src/unnamed/part_000, src/src/main/functions.ts), *)
(* the dependency counter and the Deferred primitive (src/src/util.ts).    *)
(***************************************************************************)
EXTENDS Integers, Sequences, FiniteSets, TLC

\* ------------------------------------------------------------------ bounds
\* Longest descriptor list handed to validateTaskGraph.
MaxDescriptors == 4
\* Most tasks of a workflow handed to the scheduler.
MaxTasks == 3
\* Most intermediate (finish: false) task results one runner sends.
MaxProgress == 1
\* Runners the pool may own at the same time (RunnerPoolOptions.max).
PoolMax == 2

\* ------------------------------------------------------------------ data
\* Task ids; "Z" is an id no descriptor carries, "k" a dep key that is no id.
TaskIds == <<"A", "B", "C", "D">>
UnknownId == "Z"
PlainKey == "k"

\* A dependency entry of a descriptor: key -> target (scalar) or
\* key -> [targets] (group).  ids holds the target(s) in position order.
Scalar(key, target) == [key |-> key, group |-> FALSE, ids |-> <<target>>]
Group(key, targets) == [key |-> key, group |-> TRUE, ids |-> targets]
Descriptor(id, deps) == [id |-> id, deps |-> deps]

Range(s) == {s[i] : i \in 1..Len(s)}
Prefix(s, n) == [i \in 1..n |-> s[i]]

\* The DepRef targets of a descriptor, keys in insertion order, group
\* elements in position order.
RECURSIVE Targets(_)
Targets(deps) ==
  IF deps = <<>> THEN <<>> ELSE Head(deps).ids \o Targets(Tail(deps))

VARIABLES
  workflow,        \* the descriptor list / the workflow's tasks, in order
  validation,      \* validateTaskGraph's outcome for `workflow`
  variant,         \* which executeWorkflow runs: "api" (api.ts) or "part_000"
  main,            \* where the scheduler's generator is suspended
  thrown,          \* the error the generator threw, "none" if none
  signal,          \* options.signal.aborted
  aborted,         \* executeWorkflow's `aborted` flag
  deferredMessage, \* "pending": an unsettled Deferred; "null": none
  dependencyCount, \* DependencyCounter.#counts
  dependents,      \* task id -> ids added to its Set, in insertion order
  taskReadiness,   \* task id -> state of its readiness Deferred
  results,         \* task id -> output buffer, for the ids stored
  remainingTasks,  \* remainingTasks
  fibre,           \* task id -> where its execute() call stands
  inputs,          \* task id -> what resolveDependencies built for it
  progress,        \* task id -> intermediate results its runner has sent
  busy,            \* runners currently held through withRunner
  handles,         \* task -> runners withRunner acquired and released for it
  passed,          \* task results resolve() accepted, in call order
  sent,            \* the messages the runners have sent, as [id, kind]
  stream,          \* events the generator has yielded, in order
  poolMin,         \* RunnerPool.#options.min
  poolMax,         \* RunnerPool.#options.max
  runners,         \* RunnerPool.#runners
  idleRunners,     \* RunnerPool.#idleRunners
  pending,         \* RunnerPool.#pending: the callers whose acquire is queued
  creating,        \* workers awaiting their first message: id -> [idle, owner]
  spawned,         \* workers the pool has constructed so far
  caller,          \* caller -> [st, runner, ticket] of its acquire
  tickets,         \* acquire() calls made so far
  dropped,         \* workers on which terminate() was called
  shut,            \* terminate() has been called
  lastOp,          \* the last pool operation: [op, arg, threw]
  request,         \* facade request -> state of its executeWorkflow call
  outbound,        \* messages the facade has dispatched to the engine
  inbound,         \* messages the engine port has delivered
  requestId,       \* the runner worker's requestId ("null" when idle)
  workerLog,       \* messages the worker received, each with what it did
  posted,          \* messages the worker has dispatched
  counterClass,    \* which DependencyCounter class of the file is in use
  storedCounts,    \* the DependencyCounter's #counts map
  counterCall      \* the DependencyCounter's last call and what it returned

\* --------------------------------------------------- validateTaskGraph
NoError == [name |-> "none", id |-> "", path |-> <<>>]
\* validateTaskGraph has not been called yet.
NotValidated == [name |-> "pending", id |-> "", path |-> <<>>]
CyclicDependencyError(id, stack) ==
  [name |-> "CyclicDependencyError", id |-> id, path |-> Append(stack, id)]
DependencyNotFoundError(id) ==
  [name |-> "DependencyNotFoundError", id |-> id, path |-> <<>>]
DuplicateTaskError(id) ==
  [name |-> "DuplicateTaskError", id |-> id, path |-> <<>>]

\* A first pass that accepts every list.
BuildTaskMapUnchecked(tasks, seen) == NoError

\* First pass (functions.ts:254-260): taskMap keyed by id, the first
\* collision in input order throws.
RECURSIVE BuildTaskMap(_, _)
BuildTaskMap(tasks, seen) ==
  IF tasks = <<>> THEN NoError
  ELSE IF Head(tasks).id \in seen THEN DuplicateTaskError(Head(tasks).id)
  ELSE BuildTaskMap(Tail(tasks), seen \cup {Head(tasks).id})

\* taskMap[id]: the descriptor stored under id (ids are unique here).
TaskOf(tasks, id) == tasks[CHOOSE i \in 1..Len(tasks) : tasks[i].id = id]

\* visit(id) (functions.ts:214-252) on the state st = [visited, stack, err];
\* `visited` is never cleared, the stack is popped on return.
RECURSIVE Visit(_, _, _), VisitDeps(_, _, _)
Visit(tasks, id, st) ==
  IF id \in st.visited
  THEN [st EXCEPT !.err = CyclicDependencyError(id, st.stack)]
  ELSE LET entered == [st EXCEPT !.visited = @ \cup {id},
                                 !.stack = Append(@, id)]
           after == VisitDeps(tasks, Targets(TaskOf(tasks, id).deps), entered)
       IN IF after.err # NoError THEN after
          ELSE [after EXCEPT !.stack = Prefix(@, Len(@) - 1)]

VisitDeps(tasks, targets, st) ==
  IF targets = <<>> THEN st
  ELSE IF Head(targets) \notin {tasks[i].id : i \in 1..Len(tasks)}
  THEN [st EXCEPT !.err = DependencyNotFoundError(Head(targets))]
  ELSE LET after == Visit(tasks, Head(targets), st)
       IN IF after.err # NoError THEN after
          ELSE VisitDeps(tasks, Tail(targets), after)

\* Second pass (functions.ts:262-264): visit every task in input order.
RECURSIVE VisitAll(_, _, _)
VisitAll(tasks, i, st) ==
  IF i > Len(tasks) THEN st
  ELSE LET after == Visit(tasks, tasks[i].id, st)
       IN IF after.err # NoError THEN after ELSE VisitAll(tasks, i + 1, after)

\* validateTaskGraph(tasks): the error thrown, or NoError.
validateTaskGraph(tasks) ==
  LET dup == BuildTaskMap(tasks, {})
  IN IF dup # NoError THEN dup
     ELSE VisitAll(tasks, 1, [visited |-> {}, stack |-> <<>>, err |-> NoError]).err

\* ------------------------------------------- what a valid descriptor is
UniqueIds(tasks) ==
  \A i, j \in 1..Len(tasks) : tasks[i].id = tasks[j].id => i = j
IdsOf(tasks) == {tasks[i].id : i \in 1..Len(tasks)}
NoMissingRefs(tasks) ==
  \A i \in 1..Len(tasks) : Range(Targets(tasks[i].deps)) \subseteq IdsOf(tasks)
\* T lists S as a dependency target.
DependsOn(tasks, t, s) ==
  \E i \in 1..Len(tasks) : tasks[i].id = t /\ s \in Range(Targets(tasks[i].deps))
\* Ids reachable from t along dependency edges in at most n steps.
RECURSIVE ReachableFrom(_, _, _)
ReachableFrom(tasks, from, n) ==
  IF n = 0 THEN from
  ELSE ReachableFrom(tasks,
         from \cup {s \in IdsOf(tasks) : \E t \in from : DependsOn(tasks, t, s)},
         n - 1)
Acyclic(tasks) ==
  \A t \in IdsOf(tasks) :
    t \notin ReachableFrom(tasks,
               {s \in IdsOf(tasks) : DependsOn(tasks, t, s)}, Len(tasks))
ValidGraph(tasks) == UniqueIds(tasks) /\ NoMissingRefs(tasks) /\ Acyclic(tasks)


\* ------------------------------------------------------- scheduler state
schedVars ==
  <<variant, main, thrown, signal, aborted, deferredMessage, dependencyCount,
    dependents, taskReadiness, results, remainingTasks, fibre, inputs,
    progress, busy, handles, passed, sent, stream>>

EmptyMap == [x \in {} |-> 0]

poolVars ==
  <<poolMin, poolMax, runners, idleRunners, pending, creating, spawned,
    caller, tickets, dropped, shut, lastOp>>
facadeVars == <<request, outbound, inbound>>
workerVars == <<requestId, workerLog, posted>>
counterVars == <<counterClass, storedCounts, counterCall>>
otherVars == <<poolVars, facadeVars, workerVars, counterVars>>

\* No pool has been constructed.
NoOp == [op |-> "none", arg |-> 0, threw |-> FALSE]
PoolIdle ==
  /\ poolMin = 0
  /\ poolMax = 0
  /\ runners = <<>>
  /\ idleRunners = <<>>
  /\ pending = <<>>
  /\ creating = EmptyMap
  /\ spawned = 0
  /\ caller = EmptyMap
  /\ tickets = 0
  /\ dropped = {}
  /\ shut = FALSE
  /\ lastOp = NoOp
\* The facade's executeWorkflow has not been called.
FacadeIdle ==
  /\ request = EmptyMap
  /\ outbound = <<>>
  /\ inbound = <<>>

\* The scheduler before executeWorkflow is called.
\* No worker script has been loaded.
WorkerIdle ==
  /\ requestId = "null"
  /\ workerLog = <<>>
  /\ posted = <<>>
\* No DependencyCounter is under test on its own.
NoCall == [op |-> "none", id |-> "", before |-> EmptyMap, value |-> 0, threw |-> FALSE]
CounterIdle ==
  /\ counterClass = "none"
  /\ storedCounts = EmptyMap
  /\ counterCall = NoCall

SchedulerIdle ==
  /\ variant = "api"
  /\ main = "idle"
  /\ thrown = "none"
  /\ signal = FALSE
  /\ aborted = FALSE
  /\ deferredMessage = "null"
  /\ dependencyCount = EmptyMap
  /\ dependents = EmptyMap
  /\ taskReadiness = EmptyMap
  /\ results = EmptyMap
  /\ remainingTasks = {}
  /\ fibre = EmptyMap
  /\ inputs = EmptyMap
  /\ progress = EmptyMap
  /\ busy = 0
  /\ handles = EmptyMap
  /\ passed = <<>>
  /\ sent = {}
  /\ stream = <<>>

\* ------------------------------------------- specification: validation
\* Descriptor lists: ids A..C, each with no deps, one scalar dep or one
\* group of two distinct targets; refs may name the unknown id.
ValidateIds == {"A", "B", "C"}
ValidateDeps ==
  {<<>>}
  \cup {<<Scalar(PlainKey, x)>> : x \in ValidateIds \cup {UnknownId}}
  \cup {<<Group(PlainKey, <<p[1], p[2]>>)>> :
          p \in {q \in ValidateIds \X ValidateIds : q[1] # q[2]}}
ValidateDescriptors ==
  {Descriptor(id, deps) : id \in ValidateIds, deps \in ValidateDeps}
ValidateInputs(n) == [1..n -> ValidateDescriptors]

InitValidate ==
  /\ \E n \in 0..MaxDescriptors : workflow \in ValidateInputs(n)
  /\ validation = NotValidated
  /\ SchedulerIdle
  /\ PoolIdle
  /\ FacadeIdle
  /\ WorkerIdle
  /\ CounterIdle

Validate ==
  /\ validation = NotValidated
  /\ validation' = validateTaskGraph(workflow)
  /\ UNCHANGED <<workflow, schedVars, otherVars>>

vars ==
  <<workflow, validation, schedVars, poolVars, facadeVars, workerVars, counterVars>>
NextValidate == Validate
SpecValidate == InitValidate /\ [][NextValidate]_vars

\* ------------------------------------------------------ DependencyCounter
\* new DependencyCounter(taskKeySet): every task id starts at 0.
CounterInit(ids) == [id \in ids |-> 0]
\* this.#counts.get(taskId) ?? 0
CounterGet(counts, id) == IF id \in DOMAIN counts THEN counts[id] ELSE 0
\* increment(taskId, count)
Increment(counts, id, n) == (id :> CounterGet(counts, id) + n) @@ counts
\* What decrement() stores for the new count.
StoredCount(newCount) == newCount
\* decrement(taskId): throws when the new count would be negative, else
\* stores the count and returns it.
Decrement(counts, id) ==
  LET newCount == CounterGet(counts, id) - 1
  IN IF newCount < 0
     THEN [counts |-> counts, value |-> newCount, threw |-> TRUE]
     ELSE [counts |-> (id :> StoredCount(newCount)) @@ counts,
           value |-> newCount, threw |-> FALSE]

\* --------------------------------------------------------------- Deferred
\* Deferred.resolve / Deferred.reject throw once the Deferred is settled.
Settled(state) == state # "pending"

\* Set.add on a Set kept in insertion order.
SetAdd(members, x) == IF x \in Range(members) THEN members ELSE Append(members, x)

\* --------------------------------------------------- initializeDependencies
\* dependents.get(x)!.add(taskId) for each x of `index`, in order; a key
\* the map does not hold yet makes `undefined.add` throw a TypeError.
RECURSIVE AddDependent(_, _, _)
AddDependent(st, index, taskId) ==
  IF index = <<>> THEN st
  ELSE IF Head(index) \notin DOMAIN st.dependents
  THEN [st EXCEPT !.err = "TypeError"]
  ELSE AddDependent(
         [st EXCEPT !.dependents[Head(index)] = SetAdd(@, taskId)],
         Tail(index), taskId)

\* The ids under which one scalar dep is entered in `dependents`.
ScalarIndex(dep) == <<dep.key>>

\* initializeDependencies(task, descriptor, counter, dependents) on
\* st = [count, dependents, err], one dep key after the other.
RECURSIVE initializeDependencies(_, _, _)
initializeDependencies(taskId, deps, st) ==
  IF deps = <<>> \/ st.err # "none" THEN st
  ELSE LET dep == Head(deps)
           counted == [st EXCEPT !.count =
                         Increment(@, taskId, IF dep.group THEN Len(dep.ids) ELSE 1)]
           indexed == AddDependent(counted,
                        IF dep.group THEN dep.ids ELSE ScalarIndex(dep), taskId)
       IN initializeDependencies(taskId, Tail(deps), indexed)

\* The construction loop of executeWorkflow (api.ts:79-91): for each task
\* in order, a fresh dependents Set and readiness Deferred, then
\* initializeDependencies.
RECURSIVE Construct(_, _)
Construct(tasks, st) ==
  IF tasks = <<>> \/ st.err # "none" THEN st
  ELSE LET task == Head(tasks)
           fresh == [st EXCEPT !.dependents = (task.id :> <<>>) @@ @,
                               !.gate = (task.id :> "pending") @@ @]
           init == initializeDependencies(task.id, task.deps,
                     [count |-> fresh.count, dependents |-> fresh.dependents,
                      err |-> "none"])
       IN Construct(Tail(tasks),
            [fresh EXCEPT !.count = init.count, !.dependents = init.dependents,
                          !.err = init.err])

\* ------------------------------------------------------ updateDependencies
\* The counters updateDependencies decrements for the finished task's own
\* dependency keys (functions.ts:114-134): group targets, scalar dep keys.
RECURSIVE OwnDecrements(_)
OwnDecrements(deps) ==
  IF deps = <<>> THEN <<>>
  ELSE (IF Head(deps).group THEN Head(deps).ids ELSE <<Head(deps).key>>)
       \o OwnDecrements(Tail(deps))

\* decrement(id) and, when the new count is 0, taskReadiness.get(id).resolve(),
\* for each id in order, on st = [count, gate, err]; stops at the first throw.
RECURSIVE DecrementAll(_, _)
DecrementAll(ids, st) ==
  IF ids = <<>> \/ st.err # "none" THEN st
  ELSE LET id == Head(ids)
           dec == Decrement(st.count, id)
       IN IF dec.threw THEN [st EXCEPT !.err = "CountAlreadyZero"]
          ELSE IF dec.value # 0
          THEN DecrementAll(Tail(ids), [st EXCEPT !.count = dec.counts])
          ELSE IF id \notin DOMAIN st.gate
          THEN [st EXCEPT !.count = dec.counts, !.err = "TypeError"]
          ELSE IF Settled(st.gate[id])
          THEN [st EXCEPT !.count = dec.counts, !.err = "AlreadySettled"]
          ELSE DecrementAll(Tail(ids),
                 [st EXCEPT !.count = dec.counts, !.gate[id] = "resolved"])

\* updateDependencies(task, descriptor, counter, dependents, taskReadiness).
updateDependencies(task, deps, st) ==
  DecrementAll(OwnDecrements(task.deps) \o deps[task.id], st)

\* ----------------------------------------------------- resolveDependencies
\* The buffer task t publishes.
Output(t) == [producer |-> t]
\* results.get(id) of a missing key.
Undefined == [producer |-> "undefined"]
ResultOf(res, id) == IF id \in DOMAIN res THEN res[id] ELSE Undefined

\* The ids resolveDependencies looks up in `results` for one dep key.
Lookups(dep) == IF dep.group THEN dep.ids ELSE <<dep.key>>

\* resolveDependencies(task, descriptor, results): the DependencyRecord as a
\* sequence of [key, group, values], or the error getOrError throws.
RECURSIVE resolveDependencies(_, _)
resolveDependencies(deps, res) ==
  IF deps = <<>> THEN [record |-> <<>>, err |-> "none"]
  ELSE LET dep == Head(deps)
           ids == Lookups(dep)
       IN IF \E i \in 1..Len(ids) : ids[i] \notin DOMAIN res
          THEN [record |-> <<>>, err |-> "MissingDependency"]
          ELSE LET rest == resolveDependencies(Tail(deps), res)
               IN IF rest.err # "none" THEN rest
                  ELSE [record |->
                          <<[key |-> dep.key, group |-> dep.group,
                             values |-> [i \in 1..Len(ids) |-> res[ids[i]]]]>>
                          \o rest.record,
                        err |-> "none"]


\* ------------------------------------------------- executeWorkflow closures
\* The mutable state the closures of executeWorkflow share, as one record;
\* err is the exception in flight ("none": the call returned).
Cur ==
  [count |-> dependencyCount, gate |-> taskReadiness, remaining |-> remainingTasks,
   results |-> results, deferred |-> deferredMessage, aborted |-> aborted,
   main |-> main, thrown |-> thrown, stream |-> stream, passed |-> passed,
   err |-> "none"]

Bind(s) ==
  /\ dependencyCount' = s.count
  /\ taskReadiness' = s.gate
  /\ remainingTasks' = s.remaining
  /\ results' = s.results
  /\ deferredMessage' = s.deferred
  /\ aborted' = s.aborted
  /\ main' = s.main
  /\ thrown' = s.thrown
  /\ stream' = s.stream
  /\ passed' = s.passed

Intermediate(taskId, output) ==
  [type |-> "Intermediate", taskId |-> taskId, output |-> output, results |-> EmptyMap]
Final(res) ==
  [type |-> "Final", taskId |-> "", output |-> Undefined, results |-> res]

\* A task result message: the task it is from and its finish flag.
TaskResult(taskId, finish) == [id |-> taskId, finish |-> finish]

\* deferred.resolve(result) on the Deferred the main loop may be awaiting
\* (api.ts:191-206): an awaiting loop resumes and yields the Intermediate
\* event, reading the output from `results`; otherwise nobody receives it.
DeliverMessage(s, message) ==
  IF s.main = "await"
  THEN [s EXCEPT !.main = "yield",
                 !.stream = Append(@, Intermediate(message.id,
                                        ResultOf(s.results, message.id)))]
  ELSE s

\* deferred.reject(reason): an awaiting main loop throws the reason.
DeliverRejection(s, reason) ==
  IF s.main = "await"
  THEN [s EXCEPT !.main = "failed", !.thrown = reason]
  ELSE s

\* The final-result branch of resolve() (api.ts:120-134).
HandleFinish(s, task) ==
  LET removed == [s EXCEPT !.remaining = @ \ {task.id}]
      upd == updateDependencies(task, dependents,
               [count |-> removed.count, gate |-> removed.gate, err |-> "none"])
      updated == [removed EXCEPT !.count = upd.count, !.gate = upd.gate,
                                 !.err = upd.err]
  IN IF upd.err # "none" THEN updated
     ELSE [updated EXCEPT !.results = (task.id :> Output(task.id)) @@ @]

\* The Deferred resolve() leaves in deferredMessage (api.ts:137).
NextDeferred(remaining) == IF remaining = {} THEN "null" ELSE "pending"

\* resolve(result) (api.ts:106-139, part_000:110-141).
resolveFn(s, message) ==
  IF s.deferred = "null" THEN s
  ELSE LET handled == IF message.finish
                      THEN HandleFinish(s, TaskOf(workflow, message.id))
                      ELSE s
       IN IF handled.err # "none" THEN handled
          ELSE DeliverMessage(
                 [handled EXCEPT !.deferred = NextDeferred(handled.remaining),
                                 !.passed = Append(@, message)],
                 message)

\* taskReadiness.get(taskId)?.reject(reason) for each remaining task in Set
\* order, on st = [gate, err]; Deferred.reject throws on a settled gate.
RECURSIVE RejectGates(_, _)
RejectGates(ids, st) ==
  IF ids = <<>> \/ st.err # "none" THEN st
  ELSE IF Settled(st.gate[Head(ids)])
  THEN [st EXCEPT !.err = "AlreadySettled"]
  ELSE RejectGates(Tail(ids), [st EXCEPT !.gate[Head(ids)] = "rejected"])

\* remainingTasks.values(): the ids left, in insertion (task) order.
RECURSIVE InOrder(_, _)
InOrder(tasks, ids) ==
  IF tasks = <<>> THEN <<>>
  ELSE (IF Head(tasks).id \in ids THEN <<Head(tasks).id>> ELSE <<>>)
       \o InOrder(Tail(tasks), ids)

\* reject(reason) of api.ts:141-151: no guard, and a throwing gate skips
\* the rejection of the message Deferred.
rejectApi(s, reason) ==
  LET cleared == [s EXCEPT !.deferred = "null"]
      gates == RejectGates(InOrder(workflow, s.remaining),
                           [gate |-> s.gate, err |-> "none"])
      rejected == [cleared EXCEPT !.gate = gates.gate, !.err = gates.err]
  IN IF gates.err # "none" \/ s.deferred = "null" THEN rejected
     ELSE DeliverRejection(rejected, reason)

\* reject(reason) of part_000:148-168: guarded by deferredMessage, the
\* message Deferred rejected in a finally block.
rejectPart000(s, reason) ==
  IF s.deferred = "null" THEN s
  ELSE LET cleared == [s EXCEPT !.deferred = "null"]
           gates == RejectGates(InOrder(workflow, s.remaining),
                                [gate |-> s.gate, err |-> "none"])
       IN DeliverRejection(
            [cleared EXCEPT !.gate = gates.gate, !.err = gates.err], reason)

rejectFn(s, reason) ==
  IF variant = "api" THEN rejectApi(s, reason) ELSE rejectPart000(s, reason)

\* abort(reason) of api.ts:156-167: rejects the remaining gates itself and
\* then calls reject, which rejects them again.
abortApi(s) ==
  IF s.aborted \/ s.deferred = "null" THEN s
  ELSE LET gates == RejectGates(InOrder(workflow, s.remaining),
                                [gate |-> s.gate, err |-> "none"])
           flagged == [s EXCEPT !.aborted = TRUE, !.gate = gates.gate,
                                !.err = gates.err]
       IN IF gates.err # "none" THEN flagged
          ELSE rejectApi(flagged, "AggregateError")

\* abort(reason) of part_000:178-186.
abortPart000(s) ==
  IF s.aborted \/ s.deferred = "null" THEN s
  ELSE rejectPart000([s EXCEPT !.aborted = TRUE], "AbortError")

abortFn(s) == IF variant = "api" THEN abortApi(s) ELSE abortPart000(s)

\* An exception leaving the generator body ends the stream with it.
Throw(s) == [s EXCEPT !.main = "failed", !.thrown = s.err, !.err = "none"]

\* The statement after the loop (api.ts:209-217): yield the Final event.
YieldFinal(s) ==
  [s EXCEPT !.main = "final", !.stream = Append(@, Final(s.results))]

\* One pass through the head of the main loop (api.ts:185-191), up to the
\* point where the generator suspends.
LoopHead(s) ==
  IF s.deferred = "null" THEN YieldFinal(s)
  ELSE IF signal
  THEN LET a == abortFn(s)
       IN IF a.err # "none" THEN Throw(a) ELSE YieldFinal(a)
  ELSE [s EXCEPT !.main = "await"]


\* ------------------------------------------------------------ the scheduler
\* The workflows handed to executeWorkflow: n tasks with the ids A, B, ..
\* in Map order, of which at most MaxDepKeys dep keys in total; a task has
\* no deps, one scalar dep, one group, or a scalar dep and a group under
\* two different keys.
MaxDepKeys == 2
MaxGroup == 2
IdsUpTo(n) == {TaskIds[i] : i \in 1..n}
Groups(ids) == UNION {[1..len -> ids] : len \in 1..MaxGroup}
ScalarDeps(ids) == {Scalar(key, t) : key \in ids \cup {PlainKey}, t \in ids}
GroupDeps(ids) == {Group(PlainKey, g) : g \in Groups(ids)}
DepChoices(ids) ==
  {<<>>}
  \cup {<<d>> : d \in ScalarDeps(ids) \cup GroupDeps(ids)}
  \cup {<<d, Group(PlainKey, <<t>>)>> :
          d \in {x \in ScalarDeps(ids) : x.key # PlainKey}, t \in ids}
RECURSIVE SumLen(_)
SumLen(seqs) == IF seqs = <<>> THEN 0 ELSE Len(Head(seqs)) + SumLen(Tail(seqs))
WorkflowsOf(n) ==
  {[i \in 1..n |-> Descriptor(TaskIds[i], choice[i])] :
     choice \in {c \in [1..n -> DepChoices(IdsUpTo(n))] : SumLen(c) <= MaxDepKeys}}
Workflows == UNION {WorkflowsOf(n) : n \in 0..MaxTasks}

InitScheduler ==
  /\ workflow \in Workflows
  /\ validation = NotValidated
  /\ variant \in {"api", "part_000"}
  /\ main = "idle"
  /\ thrown = "none"
  /\ signal = FALSE
  /\ aborted = FALSE
  /\ deferredMessage = "null"
  /\ dependencyCount = EmptyMap
  /\ dependents = EmptyMap
  /\ taskReadiness = EmptyMap
  /\ results = EmptyMap
  /\ remainingTasks = {}
  /\ fibre = EmptyMap
  /\ inputs = EmptyMap
  /\ progress = EmptyMap
  /\ busy = 0
  /\ handles = EmptyMap
  /\ passed = <<>>
  /\ sent = {}
  /\ stream = <<>>
  /\ PoolIdle
  /\ FacadeIdle
  /\ WorkerIdle
  /\ CounterIdle

\* The construction without the initial-task check of api.ts:93-100.
ConstructedUnchecked ==
  Construct(workflow,
    [count |-> CounterInit(IdsOf(workflow)), dependents |-> EmptyMap,
     gate |-> EmptyMap, err |-> "none"])

\* The state the generator body has built when it reaches the main loop
\* (api.ts:63-100), as [count, dependents, gate, err].
Constructed ==
  LET built == Construct(workflow,
                 [count |-> CounterInit(IdsOf(workflow)), dependents |-> EmptyMap,
                  gate |-> EmptyMap, err |-> "none"])
  IN IF built.err # "none" THEN built
     ELSE IF \A id \in DOMAIN built.count : built.count[id] # 0
     THEN [built EXCEPT !.err = "NoInitialTasks"]
     ELSE built

\* The gates executeWorkflow settles between the initial-task check and
\* the start of the task fibres.
InitialGates(built) == built.gate

\* Releasing the gate of every task whose count is 0 after construction.
ReleasedGates(built) ==
  [id \in DOMAIN built.gate |->
     IF built.count[id] = 0 THEN "resolved" ELSE built.gate[id]]

\* The first next() of the consumer: the generator body runs from its
\* start to its first suspension.  `gates` are the readiness gates as the
\* fibres find them.
Begin(built, gates) ==
  /\ main = "idle"
  /\ dependencyCount' = built.count
  /\ dependents' = built.dependents
  /\ IF built.err # "none"
     THEN /\ main' = "failed"
          /\ thrown' = built.err
          /\ taskReadiness' = built.gate
          /\ UNCHANGED <<remainingTasks, deferredMessage, aborted, fibre,
                         progress, stream, results, passed>>
     ELSE /\ fibre' = [id \in IdsOf(workflow) |-> "gate"]
          /\ progress' = [id \in IdsOf(workflow) |-> 0]
          /\ LET s == LoopHead([Cur EXCEPT !.count = built.count,
                                           !.gate = gates,
                                           !.remaining = IdsOf(workflow),
                                           !.deferred = "pending"])
             IN /\ taskReadiness' = s.gate
                /\ remainingTasks' = s.remaining
                /\ deferredMessage' = s.deferred
                /\ aborted' = s.aborted
                /\ main' = s.main
                /\ thrown' = s.thrown
                /\ stream' = s.stream
                /\ results' = s.results
                /\ passed' = s.passed
  /\ UNCHANGED <<otherVars, workflow, validation, variant, signal, inputs, busy, handles, sent>>

\* executeWorkflow as written: no gate is settled before the fibres start.
Start == Begin(Constructed, InitialGates(Constructed))

\* The consumer asks for the next event while the generator is suspended
\* at the yield of an Intermediate event.
Resume ==
  /\ main = "yield"
  /\ Bind(LoopHead(Cur))
  /\ UNCHANGED <<otherVars, workflow, validation, variant, signal, dependents, fibre,
                 inputs, progress, busy, handles, sent>>

\* The consumer asks for the next event after the Final event: the
\* generator returns.
Return ==
  /\ main = "final"
  /\ main' = "done"
  /\ UNCHANGED <<otherVars, workflow, validation, variant, thrown, signal, aborted,
                 deferredMessage, dependencyCount, dependents, taskReadiness,
                 results, remainingTasks, fibre, inputs, progress, busy, handles,
                 passed, sent, stream>>

\* The caller's AbortController fires.
SignalAbort ==
  /\ ~signal
  /\ main \notin {"done", "failed"}
  /\ signal' = TRUE
  /\ UNCHANGED <<otherVars, workflow, validation, variant, main, thrown, aborted,
                 deferredMessage, dependencyCount, dependents, taskReadiness,
                 results, remainingTasks, fibre, inputs, progress, busy, handles,
                 passed, sent, stream>>

\* execute() resumes from `await taskReadiness.get(task.id)!.promise`
\* (functions.ts:219-227): a rejected gate or a throwing
\* resolveDependencies ends the fibre with an AggregateError that
\* Promise.allSettled swallows; otherwise the fibre asks the pool for a
\* runner.
FibreGate(t) ==
  /\ t \in DOMAIN fibre
  /\ fibre[t] = "gate"
  /\ Settled(taskReadiness[t])
  /\ LET deps == resolveDependencies(TaskOf(workflow, t).deps, results)
     IN IF taskReadiness[t] = "rejected" \/ deps.err # "none"
        THEN /\ fibre' = [fibre EXCEPT ![t] = "failed"]
             /\ UNCHANGED inputs
        ELSE /\ fibre' = [fibre EXCEPT ![t] = "acquire"]
             /\ inputs' = (t :> deps.record) @@ inputs
  /\ UNCHANGED <<otherVars, workflow, validation, variant, main, thrown, signal, aborted,
                 deferredMessage, dependencyCount, dependents, taskReadiness,
                 results, remainingTasks, progress, busy, handles, passed, sent, stream>>


\* A message of a runner: "progress" (finish: false), "final" (finish: true)
\* or "error" (an error response).
Sent(taskId, kind) == [id |-> taskId, kind |-> kind]

\* The catch block around the for-await of execute() (functions.ts:238-240):
\* an exception of resolve() or reject() is handed to reject().
CatchReject(s) ==
  IF s.err = "none" THEN s ELSE rejectFn([s EXCEPT !.err = "none"], s.err)

\* How execute() ends once the runner's stream is over: normally, or with
\* the AggregateError wrapping what escaped the catch block.
FibreEnd(s) == IF s.err = "none" THEN "done" ELSE "failed"

\* withRunner's bookkeeping for one task: a runner acquired, a runner
\* released.
HandlesOf(h, t) == IF t \in DOMAIN h THEN h[t] ELSE [acquired |-> 0, released |-> 0]
Took(h, t) ==
  (t :> [HandlesOf(h, t) EXCEPT !.acquired = @ + 1]) @@ h
GaveBack(h, t) ==
  (t :> [HandlesOf(h, t) EXCEPT !.released = @ + 1]) @@ h

\* pool.acquire() hands the fibre a runner (withRunner, functions.ts:278)
\* and the task is dispatched to it.
Acquire(t) ==
  /\ t \in DOMAIN fibre
  /\ fibre[t] = "acquire"
  /\ busy < PoolMax
  /\ busy' = busy + 1
  /\ handles' = Took(handles, t)
  /\ fibre' = [fibre EXCEPT ![t] = "running"]
  /\ UNCHANGED <<otherVars, workflow, validation, variant, main, thrown, signal, aborted,
                 deferredMessage, dependencyCount, dependents, taskReadiness,
                 results, remainingTasks, inputs, progress, passed, sent, stream>>

\* The runner sends an intermediate task result; the fibre passes it to
\* resolve() (functions.ts:231-236).
RunnerProgress(t) ==
  /\ t \in DOMAIN fibre
  /\ fibre[t] = "running"
  /\ progress[t] < MaxProgress
  /\ progress' = [progress EXCEPT ![t] = @ + 1]
  /\ Bind([CatchReject(resolveFn(Cur, TaskResult(t, FALSE))) EXCEPT !.err = "none"])
  /\ sent' = sent \cup {Sent(t, "progress")}
  /\ UNCHANGED <<otherVars, workflow, validation, variant, signal, dependents, fibre,
                 inputs, busy, handles>>

\* The runner sends its final task result; the fibre passes it to
\* resolve(), the runner's stream ends and withRunner releases the runner.
RunnerFinal(t) ==
  /\ t \in DOMAIN fibre
  /\ fibre[t] = "running"
  /\ LET s == CatchReject(resolveFn(Cur, TaskResult(t, TRUE)))
     IN /\ Bind([s EXCEPT !.err = "none"])
        /\ fibre' = [fibre EXCEPT ![t] = FibreEnd(s)]
  /\ busy' = busy - 1
  /\ handles' = GaveBack(handles, t)
  /\ sent' = sent \cup {Sent(t, "final")}
  /\ UNCHANGED <<otherVars, workflow, validation, variant, signal, dependents, inputs,
                 progress>>

\* A runner error after which the runner is kept.
RunnerErrorKeepsRunner(t) ==
  /\ t \in DOMAIN fibre
  /\ fibre[t] = "running"
  /\ LET s == CatchReject(rejectFn(Cur, "TaskError"))
     IN /\ Bind([s EXCEPT !.err = "none"])
        /\ fibre' = [fibre EXCEPT ![t] = FibreEnd(s)]
  /\ sent' = sent \cup {Sent(t, "error")}
  /\ UNCHANGED <<otherVars, workflow, validation, variant, signal, dependents, inputs,
                 progress, busy, handles>>

\* The runner answers with an error response; the fibre passes it to
\* reject(), the runner's stream ends and withRunner releases the runner.
RunnerError(t) ==
  /\ t \in DOMAIN fibre
  /\ fibre[t] = "running"
  /\ LET s == CatchReject(rejectFn(Cur, "TaskError"))
     IN /\ Bind([s EXCEPT !.err = "none"])
        /\ fibre' = [fibre EXCEPT ![t] = FibreEnd(s)]
  /\ sent' = sent \cup {Sent(t, "error")}
  /\ busy' = busy - 1
  /\ handles' = GaveBack(handles, t)
  /\ UNCHANGED <<otherVars, workflow, validation, variant, signal, dependents, inputs,
                 progress>>

\* executeWorkflow with the gate of every initially ready task released
\* before the fibres start.
StartReleased == Begin(Constructed, ReleasedGates(Constructed))

\* --------------------------------------------------------- specifications
\* The scheduler as written (api.ts, part_000).
Next ==
  \/ Start
  \/ Return
  \/ SignalAbort
  \/ \E t \in IdsOf(workflow) : FibreGate(t)
Spec == InitScheduler /\ [][Next]_vars

\* The scheduler with the initial tasks' gates released, its runners and
\* its consumer.
NextRun ==
  \/ StartReleased
  \/ Resume
  \/ Return
  \/ SignalAbort
  \/ \E t \in IdsOf(workflow) : FibreGate(t)
  \/ \E t \in IdsOf(workflow) : Acquire(t)
  \/ \E t \in IdsOf(workflow) : RunnerProgress(t)
  \/ \E t \in IdsOf(workflow) : RunnerFinal(t)
  \/ \E t \in IdsOf(workflow) : RunnerError(t)
SpecRun == InitScheduler /\ [][NextRun]_vars


\* ------------------------------------------------------------ the facade
\* executeWorkflow of src/src/util.ts: one call per request id, all on the
\* one engine port.
MaxPortMessages == 3
Requests == {"R1", "R2"}
FacadeWorkflows == ValidateInputs(0) \cup ValidateInputs(1)

\* Messages the engine port may deliver.
Success(id, finish) ==
  [id |-> id, type |-> "workflow:execute", ok |-> TRUE, finish |-> finish]
Failure(id) ==
  [id |-> id, type |-> "workflow:execute", ok |-> FALSE, finish |-> FALSE]
OtherType(id) == [id |-> id, type |-> "other", ok |-> TRUE, finish |-> FALSE]
PortMessages ==
  UNION {{Success(id, TRUE), Success(id, FALSE), Failure(id), OtherType(id)} :
           id \in Requests}

\* A call of executeWorkflow before its first next().
NewRequest(skip) ==
  [skip |-> skip, main |-> "idle", deferred |-> "null", aborted |-> FALSE,
   signal |-> FALSE, thrown |-> "none", cause |-> "none", listening |-> FALSE,
   stream |-> <<>>, accepted |-> <<>>]

\* The catch and finally blocks of util.ts:305-309: what leaves the try
\* block is wrapped in an AggregateError and the listener is removed.
FacadeFail(q, cause) ==
  [q EXCEPT !.main = "failed", !.thrown = "AggregateError", !.cause = cause,
            !.listening = FALSE]

\* resolve(result) of util.ts:222-236.
facadeResolve(q, result) ==
  IF q.deferred = "null" THEN q
  ELSE LET next == [q EXCEPT !.deferred = IF result.finish THEN "null" ELSE "pending",
                             !.accepted = Append(@, result)]
       IN IF q.main = "await"
          THEN [next EXCEPT !.main = "yield", !.stream = Append(@, result)]
          ELSE next

\* reject(reason) of util.ts:242-246.
facadeReject(q, reason) ==
  LET cleared == [q EXCEPT !.deferred = "null"]
  IN IF q.deferred # "null" /\ q.main = "await"
     THEN FacadeFail(cleared, reason)
     ELSE cleared

\* abort(error) of util.ts:255-267, without its dispatch.
facadeAbort(q) == facadeReject([q EXCEPT !.aborted = TRUE], "AbortError")

\* isResponse(data, type, requestId) of guards.ts:35-42.
isResponse(m, type, id) == m.type = type /\ m.id = id

\* The handler createResponseMessageHandler returns (functions.ts:55-65).
handleMessage(q, id, m) ==
  IF isResponse(m, "workflow:execute", id)
  THEN IF ~m.ok THEN facadeReject(q, "Error") ELSE facadeResolve(q, m)
  ELSE facadeReject(q, "UnexpectedMessage")

\* One pass through the loop head of util.ts:291-296, up to the point
\* where the generator suspends, returns or throws.
FacadeLoopHead(q) ==
  IF q.deferred = "null" THEN [q EXCEPT !.main = "done", !.listening = FALSE]
  ELSE IF q.signal
  THEN FacadeFail(facadeAbort(q), "TypeError")
  ELSE [q EXCEPT !.main = "await"]

InitFacade ==
  /\ workflow \in FacadeWorkflows
  /\ validation = NotValidated
  /\ SchedulerIdle
  /\ PoolIdle
  /\ WorkerIdle
  /\ CounterIdle
  /\ request \in [Requests -> {NewRequest(skip) : skip \in BOOLEAN}]
  /\ outbound = <<>>
  /\ inbound = <<>>

\* The first next() of a request: validation, then the dispatch of the
\* workflow and the first pass of the loop.
FacadeStart(r) ==
  /\ request[r].main = "idle"
  /\ LET q == request[r]
         outcome == IF q.skip THEN NoError ELSE validateTaskGraph(workflow)
     IN IF outcome # NoError
        THEN /\ request' = [request EXCEPT ![r] =
                              [q EXCEPT !.main = "failed", !.thrown = outcome.name]]
             /\ UNCHANGED outbound
        ELSE /\ request' = [request EXCEPT ![r] =
                              FacadeLoopHead([q EXCEPT !.deferred = "pending",
                                                       !.listening = TRUE])]
             /\ outbound' = outbound
                  \o <<[id |-> r, type |-> "workflow:execute"]>>
                  \o (IF q.signal THEN <<[id |-> r, type |-> "workflow:abort"]>>
                      ELSE <<>>)
  /\ UNCHANGED <<workflow, validation, schedVars, poolVars, workerVars, counterVars,
                 inbound>>

\* The consumer asks for the next result after a yield.
FacadeResume(r) ==
  /\ request[r].main = "yield"
  /\ LET q == request[r]
     IN /\ request' = [request EXCEPT ![r] = FacadeLoopHead(q)]
        /\ outbound' = IF q.deferred # "null" /\ q.signal /\ ~q.aborted
                       THEN Append(outbound, [id |-> r, type |-> "workflow:abort"])
                       ELSE outbound
  /\ UNCHANGED <<workflow, validation, schedVars, poolVars, workerVars, counterVars,
                 inbound>>

\* The caller's AbortController of a request fires.
FacadeSignal(r) ==
  /\ ~request[r].signal
  /\ request[r].main \notin {"done", "failed"}
  /\ request' = [request EXCEPT ![r].signal = TRUE]
  /\ UNCHANGED <<workflow, validation, schedVars, poolVars, workerVars, counterVars,
                 outbound, inbound>>

\* The engine port delivers a message: every handler listening on the port
\* receives it.
PortMessage(m) ==
  /\ Len(inbound) < MaxPortMessages
  /\ \E r \in Requests : request[r].listening
  /\ inbound' = Append(inbound, m)
  /\ request' = [r \in Requests |->
                   IF request[r].listening THEN handleMessage(request[r], r, m)
                   ELSE request[r]]
  /\ UNCHANGED <<workflow, validation, schedVars, poolVars, workerVars, counterVars,
                 outbound>>

NextFacade ==
  \/ \E r \in Requests : FacadeStart(r)
  \/ \E r \in Requests : FacadeResume(r)
  \/ \E r \in Requests : FacadeSignal(r)
  \/ \E m \in PortMessages : PortMessage(m)
SpecFacade == InitFacade /\ [][NextFacade]_vars

\* -------------------------------------------------------- Runner worker
MaxWorkerMessages == 3
RequestIds == {"R1", "R2", "R3"}

\* What the main thread may post to the worker: a request, or an object
\* that lacks the input field.
WorkerRequest(id) == [type |-> "task:execute", id |-> id, input |-> "input"]
NoInput(id) == [type |-> "task:execute", id |-> id]
WorkerMessages ==
  {WorkerRequest(id) : id \in RequestIds} \cup {NoInput(id) : id \in RequestIds}

\* isRequest(data) without a type argument.
isRequest(data) == {"type", "id", "input"} \subseteq DOMAIN data

ReadyMessage == [type |-> "ready"]
ErrorMessage(id, error) == [ok |-> FALSE, id |-> id, type |-> "error", error |-> error]

\* The worker script has run: requestId is null and ready has been sent.
InitWorker ==
  /\ workflow = <<>>
  /\ validation = NotValidated
  /\ SchedulerIdle
  /\ PoolIdle
  /\ FacadeIdle
  /\ CounterIdle
  /\ requestId = "null"
  /\ workerLog = <<>>
  /\ posted = <<ReadyMessage>>

\* The worker's message listener, from the event to its return.
WorkerMessage(data) ==
  /\ Len(workerLog) < MaxWorkerMessages
  /\ IF isRequest(data)
     THEN LET idle == requestId = "null"
          IN IF idle \/ requestId = data.id
             THEN \* requestId is set when idle; the finally clause clears it.
                  /\ requestId' = "null"
                  /\ workerLog' = Append(workerLog, [in |-> data, out |-> "processed"])
                  /\ UNCHANGED posted
             ELSE /\ posted' = Append(posted, ErrorMessage(data.id, "Worker is busy"))
                  /\ workerLog' = Append(workerLog, [in |-> data, out |-> "Worker is busy"])
                  /\ UNCHANGED requestId
     ELSE /\ posted' = Append(posted, ErrorMessage(data.id, "Invalid message"))
          /\ workerLog' = Append(workerLog, [in |-> data, out |-> "Invalid message"])
          /\ UNCHANGED requestId
  /\ UNCHANGED <<workflow, validation, schedVars, poolVars, facadeVars, counterVars>>

NextWorker == \E data \in WorkerMessages : WorkerMessage(data)
SpecWorker == InitWorker /\ [][NextWorker]_vars

\* ----------------------------------------------------------- RunnerPool
\* Callers of acquire(), workers the pool may construct, settings tried.
MaxCallers == 3
MaxWorkers == 3
MaxTickets == 3
MaxSetting == 2
Callers == 1..MaxCallers
\* A worker the pool has not constructed.
ForeignRunner == 0
NoOwner == 0

Op(op, arg, threw) == [op |-> op, arg |-> arg, threw |-> threw]
NotIn(seq, members) == SelectSeq(seq, LAMBDA y : y \notin members)
\* A caller with no acquire outstanding.
Free(c) == caller[c].st \in {"idle", "rejected"}

\* An acquire rejected with the given error.
Rejected(waiter, error) == [waiter EXCEPT !.st = "rejected", !.error = error]

\* The pool's fields as one record.
Pool ==
  [min |-> poolMin, max |-> poolMax, runners |-> runners, idle |-> idleRunners,
   pending |-> pending, creating |-> creating, spawned |-> spawned,
   caller |-> caller, dropped |-> dropped, threw |-> FALSE]

BindPool(q) ==
  /\ poolMin' = q.min
  /\ poolMax' = q.max
  /\ runners' = q.runners
  /\ idleRunners' = q.idle
  /\ pending' = q.pending
  /\ creating' = q.creating
  /\ spawned' = q.spawned
  /\ caller' = q.caller
  /\ dropped' = q.dropped

\* #createRunner(idle) up to its listeners being attached: a new worker
\* whose first message is awaited; owner is the acquire it will resolve.
createRunner(q, idle, owner) ==
  [q EXCEPT !.spawned = @ + 1,
            !.creating = ((q.spawned + 1) :> [idle |-> idle, owner |-> owner]) @@ @]

\* The eager creations of the constructor and of the min setter.
RECURSIVE createEager(_, _)
createEager(q, n) ==
  IF n <= 0 THEN q ELSE createEager(createRunner(q, TRUE, NoOwner), n - 1)

\* #dispatchPending() leaving the runner it hands over in the idle queue.
dispatchPendingKeepsIdle(q) ==
  IF q.pending # <<>> /\ q.idle # <<>>
  THEN [q EXCEPT !.pending = Tail(@),
                 !.caller[Head(q.pending)] =
                    [@ EXCEPT !.st = "holding", !.runner = Head(q.idle)]]
  ELSE q

\* #dispatchPending() handing nothing over.
dispatchPendingNever(q) == q

\* #dispatchPending().
dispatchPending(q) ==
  IF q.pending # <<>> /\ q.idle # <<>>
  THEN [q EXCEPT !.pending = Tail(@), !.idle = Tail(@),
                 !.caller[Head(q.pending)] =
                    [@ EXCEPT !.st = "holding", !.runner = Head(q.idle)]]
  ELSE q

\* release(runner) without the membership test.
releaseUnchecked(q, r) == dispatchPending([q EXCEPT !.idle = Append(@, r)])

\* release(runner).
release(q, r) ==
  IF r \notin Range(q.runners) THEN [q EXCEPT !.threw = TRUE]
  ELSE dispatchPending([q EXCEPT !.idle = Append(@, r)])

\* #terminateIdleRunners().
terminateIdleRunners(q) ==
  [q EXCEPT !.dropped = @ \cup Range(q.idle),
            !.runners = NotIn(@, Range(q.idle)),
            !.idle = <<>>]

\* terminate() that forgets the pending acquires.
terminateRunnersOnly(q) ==
  [q EXCEPT !.dropped = @ \cup Range(q.runners),
            !.runners = <<>>, !.idle = <<>>, !.pending = <<>>]

\* terminate().
terminate(q) ==
  [q EXCEPT !.dropped = @ \cup Range(q.runners),
            !.caller = [c \in DOMAIN q.caller |->
                          IF c \in Range(q.pending)
                          THEN Rejected(q.caller[c], "PoolTerminated")
                          ELSE q.caller[c]],
            !.runners = <<>>, !.idle = <<>>, !.pending = <<>>]

\* set max(value).
setMax(q, v) ==
  IF v <= 0 \/ v < q.min THEN [q EXCEPT !.threw = TRUE]
  ELSE LET set == [q EXCEPT !.max = v]
       IN IF Len(set.runners) > v THEN terminateIdleRunners(set) ELSE set

\* set min(value).
setMin(q, v) ==
  IF v <= 0 \/ v > q.max THEN [q EXCEPT !.threw = TRUE]
  ELSE LET set == [q EXCEPT !.min = v]
           grown == createEager(set, v - Len(set.runners))
       IN IF Len(grown.runners) > v THEN terminateIdleRunners(grown) ELSE grown

\* The options object: each of min and max is given or left undefined.
RunnerPoolOptions ==
  UNION {[given -> 0..MaxSetting] : given \in SUBSET {"min", "max"}}

\* DEFAULT_OPTIONS with navigator.hardwareConcurrency = cores.
DEFAULT_OPTIONS(cores) == [min |-> 1, max |-> cores]

\* The constructor's validation and the merge of the options over the
\* defaults.
constructor(options, cores) ==
  LET has(k) == k \in DOMAIN options
      merged == [k \in {"min", "max"} |->
                   IF has(k) THEN options[k] ELSE DEFAULT_OPTIONS(cores)[k]]
      invalid == \/ has("min") /\ options["min"] <= 0
                 \/ has("max") /\ options["max"] <= 0
                 \/ has("min") /\ has("max") /\ options["min"] > options["max"]
  IN [threw |-> invalid, min |-> merged["min"], max |-> merged["max"]]

\* new RunnerPool(options): the options stored and min workers being
\* constructed as idle runners.
InitPool ==
  /\ workflow = <<>>
  /\ validation = NotValidated
  /\ SchedulerIdle
  /\ FacadeIdle
  /\ WorkerIdle
  /\ CounterIdle
  /\ \E options \in RunnerPoolOptions : \E cores \in 1..MaxSetting :
       LET built == constructor(options, cores)
       IN /\ ~built.threw
          /\ poolMin = built.min
          /\ poolMax = built.max
          /\ creating = [w \in 1..built.min |-> [idle |-> TRUE, owner |-> NoOwner]]
          /\ spawned = built.min
  /\ runners = <<>>
  /\ idleRunners = <<>>
  /\ pending = <<>>
  /\ caller = [c \in Callers |->
                 [st |-> "idle", runner |-> ForeignRunner, ticket |-> 0, error |-> "none"]]
  /\ tickets = 0
  /\ dropped = {}
  /\ shut = FALSE
  /\ lastOp = NoOp

PoolFrame ==
  UNCHANGED <<workflow, validation, schedVars, facadeVars, workerVars, counterVars>>

\* acquire() by caller c.
PoolAcquire(c) ==
  /\ Free(c)
  /\ tickets < MaxTickets
  /\ tickets' = tickets + 1
  /\ LET asked == [Pool EXCEPT !.caller[c] =
                     [st |-> "idle", runner |-> ForeignRunner, ticket |-> tickets + 1,
                      error |-> "none"]]
     IN IF asked.idle # <<>>
        THEN BindPool([asked EXCEPT !.idle = Tail(@),
                                    !.caller[c].st = "holding",
                                    !.caller[c].runner = Head(asked.idle)])
        ELSE IF Len(asked.runners) < asked.max
        THEN /\ spawned < MaxWorkers
             /\ BindPool(createRunner([asked EXCEPT !.caller[c].st = "creating"],
                                      FALSE, c))
        ELSE BindPool([asked EXCEPT !.pending = Append(@, c),
                                    !.caller[c].st = "queued"])
  /\ lastOp' = Op("acquire", c, FALSE)
  /\ UNCHANGED shut
  /\ PoolFrame

\* The first message of worker w is its ready message (onMessage,
\* RunnerPool.ts:239-247).
PoolReady(w) ==
  /\ w \in DOMAIN creating
  /\ LET made == creating[w]
         listed == [Pool EXCEPT !.runners = Append(@, w),
                                !.idle = IF made.idle THEN Append(@, w) ELSE @,
                                !.creating = [x \in DOMAIN creating \ {w} |-> creating[x]]]
     IN BindPool(IF made.owner = NoOwner THEN listed
                 ELSE [listed EXCEPT !.caller[made.owner].st = "holding",
                                     !.caller[made.owner].runner = w])
  /\ lastOp' = Op("ready", w, FALSE)
  /\ UNCHANGED <<tickets, shut>>
  /\ PoolFrame

\* The first message of worker w is no ready message (onMessage,
\* RunnerPool.ts:248-253) or the worker raises an error (onError): the
\* creation fails and the acquire waiting for it is rejected.
PoolCreateFails(w, byMessage) ==
  /\ w \in DOMAIN creating
  /\ LET made == creating[w]
         gone == [Pool EXCEPT !.creating = [x \in DOMAIN creating \ {w} |-> creating[x]],
                              !.dropped = IF byMessage THEN @ \cup {w} ELSE @]
     IN BindPool(IF made.owner = NoOwner THEN gone
                 ELSE [gone EXCEPT !.caller[made.owner] =
                         Rejected(@, IF byMessage THEN "FailedToInitialize"
                                     ELSE "WorkerError")])
  /\ lastOp' = Op("createFailed", w, FALSE)
  /\ UNCHANGED <<tickets, shut>>
  /\ PoolFrame

\* release(runner) by the caller holding the runner (withRunner's finally).
PoolRelease(c) ==
  /\ caller[c].st = "holding"
  /\ LET r == caller[c].runner
         q == release([Pool EXCEPT !.caller[c].st = "idle"], r)
     IN /\ BindPool(q)
        /\ lastOp' = Op("release", r, q.threw)
  /\ UNCHANGED <<tickets, shut>>
  /\ PoolFrame

\* release(runner) with a worker that is not in the pool's runner list.
PoolReleaseUnowned(r) ==
  /\ r \notin Range(runners)
  /\ \A c \in Callers : ~(caller[c].st = "holding" /\ caller[c].runner = r)
  /\ LET q == release(Pool, r)
     IN /\ BindPool(q)
        /\ lastOp' = Op("release", r, q.threw)
  /\ UNCHANGED <<tickets, shut>>
  /\ PoolFrame

\* terminate().
PoolTerminate ==
  /\ ~shut
  /\ BindPool(terminate(Pool))
  /\ shut' = TRUE
  /\ lastOp' = Op("terminate", 0, FALSE)
  /\ UNCHANGED tickets
  /\ PoolFrame

\* pool.max = v.
PoolSetMax(v) ==
  /\ v # poolMax
  /\ LET q == setMax(Pool, v)
     IN /\ BindPool(q)
        /\ lastOp' = Op("setMax", v, q.threw)
  /\ UNCHANGED <<tickets, shut>>
  /\ PoolFrame

\* pool.min = v.
PoolSetMin(v) ==
  /\ v # poolMin
  /\ spawned + v <= MaxWorkers
  /\ LET q == setMin(Pool, v)
     IN /\ BindPool(q)
        /\ lastOp' = Op("setMin", v, q.threw)
  /\ UNCHANGED <<tickets, shut>>
  /\ PoolFrame

NextPool ==
  \/ \E c \in Callers : PoolAcquire(c)
  \/ \E w \in 1..MaxWorkers : PoolReady(w)
  \/ \E w \in 1..MaxWorkers : \E byMessage \in BOOLEAN : PoolCreateFails(w, byMessage)
  \/ \E c \in Callers : PoolRelease(c)
  \/ \E r \in 0..MaxWorkers : PoolReleaseUnowned(r)
  \/ PoolTerminate
  \/ \E v \in 0..MaxSetting : PoolSetMax(v)
  \/ \E v \in 0..MaxSetting : PoolSetMin(v)
SpecPool == InitPool /\ [][NextPool]_vars

\* release(runner) called a second time by a caller that has released the
\* runner and has not acquired since.
PoolReleaseAgain(c) ==
  /\ caller[c].st = "idle"
  /\ caller[c].runner # ForeignRunner
  /\ LET r == caller[c].runner
         q == release([Pool EXCEPT !.caller[c].runner = ForeignRunner], r)
     IN /\ BindPool(q)
        /\ lastOp' = Op("releaseAgain", r, q.threw)
  /\ UNCHANGED <<tickets, shut>>
  /\ PoolFrame

\* A pool whose callers may release twice.
NextPoolMisuse ==
  \/ \E c \in Callers : PoolAcquire(c)
  \/ \E w \in 1..MaxWorkers : PoolReady(w)
  \/ \E c \in Callers : PoolRelease(c)
  \/ \E c \in Callers : PoolReleaseAgain(c)
SpecPoolMisuse == InitPool /\ [][NextPoolMisuse]_vars

\* A message of worker w while a caller holds it: a task result or an
\* error response (the worker posts ready only once, when it is loaded).
\* onMessage is never removed once the ready message has arrived, so the
\* listener of #createRunner runs again (RunnerPool.ts:238-254): the
\* message is no ready message, the listeners are removed and the worker
\* is terminated; reject() of the settled promise does nothing.
PoolRunnerMessage(w) ==
  /\ \E c \in Callers : caller[c].st = "holding" /\ caller[c].runner = w
  /\ w \notin dropped
  /\ BindPool([Pool EXCEPT !.dropped = @ \cup {w}])
  /\ lastOp' = Op("message", w, FALSE)
  /\ UNCHANGED <<tickets, shut>>
  /\ PoolFrame

\* A pool whose runners answer the tasks their holders dispatch to them.
NextPoolMessages ==
  \/ \E c \in Callers : PoolAcquire(c)
  \/ \E w \in 1..MaxWorkers : PoolReady(w)
  \/ \E c \in Callers : PoolRelease(c)
  \/ \E w \in 1..MaxWorkers : PoolRunnerMessage(w)
SpecPoolMessages == InitPool /\ [][NextPoolMessages]_vars

\* A pool that is never terminated, whose workers all post ready and whose
\* callers release what they hold (withRunner's finally).
NextPoolLive ==
  \/ \E c \in Callers : PoolAcquire(c)
  \/ \E w \in 1..MaxWorkers : PoolReady(w)
  \/ \E c \in Callers : PoolRelease(c)
  \/ \E v \in 0..MaxSetting : PoolSetMax(v)
  \/ \E v \in 0..MaxSetting : PoolSetMin(v)
SpecPoolLive ==
  /\ InitPool
  /\ [][NextPoolLive]_vars
  /\ \A w \in 1..MaxWorkers : WF_vars(PoolReady(w))
  /\ \A c \in Callers : WF_vars(PoolRelease(c))

\* ------------------------------------------- DependencyCounter on its own
\* DependencyCounter.ts holds two bodies of the class: the first
\* (lines 4-86) without constructor and init, the second (lines 91-194)
\* with them.  The counter is driven by init, increment and decrement
\* calls over the ids of CounterIds, counts capped at MaxCount.
MaxCount == 3
MaxIncrement == 2
CounterIds == {"A", "B"}
CounterClasses == {"first", "second"}

\* decrement(taskId) of the first class (DependencyCounter.ts:41-51):
\* throws when the new count would be negative, else stores newCount - 1
\* and returns newCount.
DecrementFirst(stored, id) ==
  LET newCount == CounterGet(stored, id) - 1
  IN IF newCount < 0
     THEN [counts |-> stored, value |-> newCount, threw |-> TRUE]
     ELSE [counts |-> (id :> newCount - 1) @@ stored,
           value |-> newCount, threw |-> FALSE]

decrement(class, stored, id) ==
  IF class = "first" THEN DecrementFirst(stored, id) ELSE Decrement(stored, id)

Call(op, id, before, value, threw) ==
  [op |-> op, id |-> id, before |-> before, value |-> value, threw |-> threw]

InitCounter ==
  /\ workflow = <<>>
  /\ validation = NotValidated
  /\ SchedulerIdle
  /\ PoolIdle
  /\ FacadeIdle
  /\ WorkerIdle
  /\ counterClass \in CounterClasses
  /\ storedCounts = EmptyMap
  /\ counterCall = NoCall

CounterFrame ==
  UNCHANGED <<workflow, validation, schedVars, poolVars, facadeVars, workerVars,
              counterClass>>

\* init(deps) (DependencyCounter.ts:109-113): each id of deps set to 0.
CounterInitCall(ids) ==
  /\ counterClass = "second"
  /\ storedCounts' = CounterInit(ids) @@ storedCounts
  /\ counterCall' = Call("init", "", storedCounts, 0, FALSE)
  /\ CounterFrame

\* increment(taskId, count) with count >= 1.
CounterIncrement(id, n) ==
  /\ CounterGet(storedCounts, id) + n <= MaxCount
  /\ storedCounts' = Increment(storedCounts, id, n)
  /\ counterCall' = Call("increment", id, storedCounts, CounterGet(storedCounts, id) + n, FALSE)
  /\ CounterFrame

\* decrement(taskId), of whichever class is in use.
CounterDecrement(id) ==
  /\ LET dec == decrement(counterClass, storedCounts, id)
     IN /\ storedCounts' = dec.counts
        /\ counterCall' = Call("decrement", id, storedCounts, dec.value, dec.threw)
  /\ CounterFrame

NextCounter ==
  \/ \E ids \in SUBSET CounterIds : CounterInitCall(ids)
  \/ \E id \in CounterIds, n \in 1..MaxIncrement : CounterIncrement(id, n)
  \/ \E id \in CounterIds : CounterDecrement(id)
SpecCounter == InitCounter /\ [][NextCounter]_vars

\* C1: validateTaskGraph returns without error iff the descriptor list has
\* unique ids, no missing refs and no cycles.
C1_AcceptsIffValid ==
  validation # NotValidated => (validation = NoError <=> ValidGraph(workflow))

\* ------------------------------------------------- the scheduler's claims
\* Positions of the stream holding an event of the given type.
EventsAt(type) == {i \in 1..Len(stream) : stream[i].type = type}
\* The task has an Intermediate event among the first n events.
IntermediateBefore(t, n) ==
  \E j \in 1..n : stream[j].type = "Intermediate" /\ stream[j].taskId = t
\* The fibre passed its gate and resolved its inputs.
Dispatched(t) == t \in DOMAIN fibre /\ fibre[t] \in {"acquire", "running", "done"}
TargetsOf(t) == Range(Targets(TaskOf(workflow, t).deps))
\* No abort was asked for and no runner answered with an error.
Undisturbed == ~signal /\ \A t \in IdsOf(workflow) : Sent(t, "error") \notin sent
\* Every task's runner has returned its final task result.
AllSucceeded ==
  Undisturbed /\ \A t \in IdsOf(workflow) : Sent(t, "final") \in sent
\* The workflow handed over is one validation is meant to accept.
ValidWorkflow == workflow # <<>> /\ ValidGraph(workflow)

Stalled ==
  /\ main = "await"
  /\ \A t \in DOMAIN fibre : fibre[t] = "gate" /\ taskReadiness[t] = "pending"
\* C4: the run of a valid workflow never comes to a halt before its Final
\* event: while the generator waits for a message some task is dispatched
\* or can be.
C4_NeverStalled == ValidWorkflow => ~Stalled

C6_NoFinalAfterAbort == aborted => EventsAt("Final") = {}

KeysAreTargets(t) ==
  LET deps == TaskOf(workflow, t).deps
  IN \A i \in 1..Len(deps) : ~deps[i].group => deps[i].key = deps[i].ids[1]
C11_EmptyWorkflowFinal ==
  (workflow = <<>> /\ main # "idle") =>
    /\ main \in {"final", "done"}
    /\ stream = <<Final(EmptyMap)>>

\* The construction went through and left no task with count 0.
NoInitialTask ==
  /\ main # "idle"
  /\ thrown # "TypeError"
  /\ \A id \in DOMAIN dependencyCount : dependencyCount[id] # 0
\* C12: when construction leaves no task with count 0 the generator has
\* failed with the no-initial-tasks error, no fibre was started, no runner
\* is held and no event was yielded.
C12_NoInitialTasksFails ==
  NoInitialTask =>
    /\ main = "failed"
    /\ thrown = "NoInitialTasks"
    /\ fibre = EmptyMap
    /\ inputs = EmptyMap
    /\ busy = 0
    /\ stream = <<>>
\* A workflow with tasks, each of which waits for another, has been run.
C12_Witness ==
  /\ NoInitialTask
  /\ workflow # <<>>
  /\ taskReadiness # EmptyMap
  /\ thrown = "NoInitialTasks"

\* C13: a run the abort path has ended has thrown the AbortError (alone or
\* as the cause of the aggregate error) as its terminal exception.
C13_AbortThrowsAbortError ==
  (aborted /\ main \in {"final", "done", "failed"}) =>
    /\ main = "failed"
    /\ thrown \in {"AbortError", "AggregateError"}

\* C14: once the abort signal of a request has fired its abort path has
\* been triggered: the request does not stay suspended on its deferred
\* result, waiting for a message of the engine.
C14_SignalTriggersAbort ==
  \A r \in DOMAIN request :
    (request[r].signal /\ request[r].main = "await") => request[r].aborted


\* ------------------------------------------------------ RunnerPool claims
Holders == {c \in Callers : caller[c].st = "holding"}

\* C15: the pool never owns more than max runners, and never more than max
\* callers hold a runner at the same time.
C15_SizeAtMostMax ==
  /\ Len(runners) <= poolMax
  /\ Cardinality(Holders) <= poolMax

\* C16: while an acquire is queued there is no idle runner and the pool is
\* at its maximum size.
C16_PendingOnlyWhenSaturated ==
  pending # <<>> => (idleRunners = <<>> /\ Len(runners) = poolMax)

\* C17: pending acquires are served in the order they were made: no caller
\* holds a runner obtained by an acquire made after an acquire that is still
\* in the pending queue.
C17_ServedFifo ==
  \A x \in Range(pending) : \A y \in Holders : caller[y].ticket < caller[x].ticket


\* C18: on a pool that is not terminated, whose workers all become ready
\* and whose callers release what they hold, every acquire eventually
\* returns a runner.
C18_AcquireEventuallyServed ==
  \A c \in Callers :
    (caller[c].st \in {"creating", "queued"}) ~> (caller[c].st = "holding")

C18_Witness ==
  /\ lastOp.op = "release"
  /\ ~lastOp.threw
  /\ \E c \in Holders : caller[c].runner = lastOp.arg /\ caller[c].ticket > 1

\* C19: a terminate() step leaves the pool with no runner, no idle runner
\* and no pending acquire, and every acquire that was queued is rejected
\* with the pool-terminated error.
C19_TerminateDropsAll ==
  [][(~shut /\ shut') =>
       /\ runners' = <<>>
       /\ idleRunners' = <<>>
       /\ pending' = <<>>
       /\ \A c \in Range(pending) :
            caller'[c].st = "rejected" /\ caller'[c].error = "PoolTerminated"]_vars
C19_Witness ==
  /\ lastOp.op = "terminate"
  /\ dropped # {}
  /\ \E c \in Callers :
       caller[c].st = "rejected" /\ caller[c].error = "PoolTerminated"

\* C20: a release of a runner that is not in the pool's runner list throws
\* and leaves the runner list, the idle queue and the pending queue as
\* they were.
C20_ReleaseUnownedThrows ==
  [][(lastOp'.op = "release" /\ lastOp'.arg \notin Range(runners)) =>
       /\ lastOp'.threw
       /\ UNCHANGED <<runners, idleRunners, pending>>]_vars
C20_Witness ==
  /\ lastOp.op = "release"
  /\ lastOp.threw
  /\ runners # <<>>
  /\ pending # <<>>


NoDuplicates(seq) == \A i, j \in 1..Len(seq) : seq[i] = seq[j] => i = j

\* C21: a second release of the same runner fails, no runner is twice in
\* the idle queue, and idle <= size (busy >= 0).
C21_DoubleReleaseDetected ==
  /\ lastOp.op = "releaseAgain" => lastOp.threw
  /\ NoDuplicates(idleRunners)
  /\ Len(idleRunners) <= Len(runners)


Smaller(a, b) == IF a <= b THEN a ELSE b

\* C22: a max setter step with the new max below the pool's size terminates
\* exactly min(idle, size - max) idle runners and no busy runner.
C22_MaxTrimsOnlyExcess ==
  [][(poolMax' # poolMax /\ poolMax' < Len(runners)) =>
       /\ Len(runners) - Len(runners') =
            Smaller(Len(idleRunners), Len(runners) - poolMax')
       /\ Cardinality(dropped' \ dropped) = Len(runners) - Len(runners')
       /\ \A r \in Range(runners) \ Range(idleRunners) :
            r \in Range(runners') /\ r \notin dropped']_vars


\* C23: the configuration satisfies 0 < min <= max in every state, that
\* is after the constructor and after every call of a setter.
C23_ConfigOrdered ==
  /\ 0 < poolMin
  /\ poolMin <= poolMax


\* C24: once the worker has taken up a request with id R and has sent
\* nothing for R since, a request with another id is answered with the
\* error "Worker is busy" and is not processed.
C24_BusyWhileServing ==
  \A i, j \in 1..Len(workerLog) :
    ( /\ i < j
      /\ workerLog[i].out = "processed"
      /\ isRequest(workerLog[j].in)
      /\ workerLog[j].in.id # workerLog[i].in.id
      /\ \A k \in (i + 1)..(j - 1) :
           workerLog[k].in.id = workerLog[i].in.id => workerLog[k].out = "processed" )
    => workerLog[j].out = "Worker is busy"


RECURSIVE HeldSum(_, _)
HeldSum(h, ids) ==
  IF ids = {} THEN 0
  ELSE LET t == CHOOSE x \in ids : TRUE
       IN (h[t].acquired - h[t].released) + HeldSum(h, ids \ {t})

FirstCollision(tasks) ==
  LET j == CHOOSE n \in 1..Len(tasks) :
             /\ \E i \in 1..(n - 1) : tasks[i].id = tasks[n].id
             /\ \A m \in 1..(n - 1) :
                  \A i \in 1..(m - 1) : tasks[i].id # tasks[m].id
  IN tasks[j].id

OnCycle(tasks, id) ==
  id \in ReachableFrom(tasks, {s \in IdsOf(tasks) : DependsOn(tasks, id, s)},
                       Len(tasks))

\* C27: the path of a CyclicDependencyError raised for an id that lies on a
\* cycle is a closed cycle: it starts and ends with the id and each
\* consecutive pair is a dependency edge.
C27_PathIsClosedCycle ==
  (validation.name = "CyclicDependencyError" /\ OnCycle(workflow, validation.id)) =>
    LET path == validation.path
    IN /\ Len(path) >= 2
       /\ path[1] = validation.id
       /\ path[Len(path)] = validation.id
       /\ \A n \in 1..(Len(path) - 1) : DependsOn(workflow, path[n], path[n + 1])


\* The dependency references of t, counted with multiplicity, whose target
\* has no entry in `results`.
PendingRefs(t) ==
  LET targets == Targets(TaskOf(workflow, t).deps)
  IN Cardinality({n \in 1..Len(targets) : targets[n] \notin DOMAIN results})

C30_GateSettledOnce ==
  ValidWorkflow =>
    /\ thrown # "AlreadySettled"
    /\ \A t \in DOMAIN taskReadiness :
         taskReadiness[t] = "resolved" => CounterGet(dependencyCount, t) = 0

\* ---------------------------------------------------- failure of a workflow
\* reject() or abort() has run: the message Deferred is gone while tasks
\* remain.
Rejected31 == fibre # EmptyMap /\ deferredMessage = "null" /\ remainingTasks # {}

\* C31: once the workflow has been rejected or aborted, every task still
\* in `remaining` has a settled readiness gate, the main loop is no longer
\* waiting on the message Deferred (it was rejected), and the operation
\* did not throw on a gate that was already settled.
C31_RejectSettlesEveryGate ==
  Rejected31 =>
    /\ \A t \in remainingTasks : Settled(taskReadiness[t])
    /\ main # "await"
    /\ thrown # "AlreadySettled"

C34_DependentsAreReverseTargets ==
  (ValidWorkflow /\ fibre # EmptyMap) =>
    /\ DOMAIN dependents = IdsOf(workflow)
    /\ \A S \in IdsOf(workflow), T \in IdsOf(workflow) :
         (T \in Range(dependents[S])) <=> (S \in TargetsOf(T))

\* C35: a decrement of a count c >= 1 stores c - 1 and returns the value
\* it stored, so reading the count afterwards gives the returned value.
C35_SingleDecrement ==
  (/\ counterCall.op = "decrement"
   /\ CounterGet(counterCall.before, counterCall.id) >= 1) =>
    /\ ~counterCall.threw
    /\ CounterGet(storedCounts, counterCall.id)
         = CounterGet(counterCall.before, counterCall.id) - 1
    /\ counterCall.value = CounterGet(storedCounts, counterCall.id)

\* C36: a decrement of a count of 0, or of an id the counter does not
\* hold, throws and leaves the counts as they were; every stored count is
\* a natural number.
C36_DecrementFailsAtZero ==
  /\ (/\ counterCall.op = "decrement"
      /\ CounterGet(counterCall.before, counterCall.id) = 0) =>
       (counterCall.threw /\ storedCounts = counterCall.before)
  /\ \A id \in DOMAIN storedCounts : storedCounts[id] \in Nat

\* C37: while the pool is neither terminated nor trimmed, every runner in
\* the pool's runner list is live and is listed once: no message of an
\* admitted runner makes the pool terminate it or list it again.
C37_AdmittedRunnerKept ==
  /\ NoDuplicates(runners)
  /\ \A w \in Range(runners) : w \notin dropped

\* The callers that hold runner r.
HoldersOf(r) == {c \in Callers : caller[c].st = "holding" /\ caller[c].runner = r}

\* C38: with every acquirer releasing its runner once, a runner is held by
\* at most one acquirer, and a held runner is not in the idle queue.
C38_ExclusiveHold ==
  \A r \in 1..MaxWorkers :
    /\ Cardinality(HoldersOf(r)) <= 1
    /\ HoldersOf(r) # {} => r \notin Range(idleRunners)

\* A runner handed over by release to a queued acquirer while another
\* acquirer holds another runner.
C38_Witness ==
  /\ lastOp.op = "release"
  /\ HoldersOf(lastOp.arg) # {}
  /\ \E r \in 1..MaxWorkers : r # lastOp.arg /\ HoldersOf(r) # {}

\* C39: a ready message arriving right after terminate(), from a runner
\* whose construction was in flight when terminate() was called, leaves
\* the runner list and the idle queue empty and hands no runner to an
\* acquirer.
C39_StaysEmptyAfterTerminate ==
  [][(lastOp.op = "terminate" /\ lastOp'.op = "ready") =>
       /\ runners' = <<>>
       /\ idleRunners' = <<>>
       /\ \A c \in Callers :
            caller[c].st # "holding" => caller'[c].st # "holding"]_vars

\* C40: a message delivered on the engine port with the id of one request
\* leaves every other request as it was: it is neither rejected nor
\* resolved, and its result stream does not end.
C40_RequestsIsolated ==
  [][\A r \in Requests :
       (Len(inbound') = Len(inbound) + 1 /\ inbound'[Len(inbound')].id # r)
         => request'[r] = request[r]]_vars

====
